---------------------------- MODULE Spec2Model ----------------------------
(***************************************************************************)
(* Model of nu_plugin_browse (src/src/main.rs): the `http browse` plugin   *)
(* command, browse_page's browser-session lifecycle, and the idle-         *)
(* detection script that browse_page evaluates inside the page.            *)
(*                                                                         *)
(* Every invocation of the command is one element of DOMAIN call.  The     *)
(* main flow of browse_page is a sequence of awaited browser commands;     *)
(* each command is modelled by the step that issues it and the steps that  *)
(* deliver its response (Ok or Err).  The page, which lives in the browser *)
(* process, runs concurrently: its load event, its XHR and fetch requests  *)
(* and the timers of the injected script are actions of their own.  Time   *)
(* is kept by saturating clocks and count-down timers that the action      *)
(* Tick advances by TickMs milliseconds.                                   *)
(***************************************************************************)
EXTENDS Integers, Sequences, FiniteSets, TLC

VARIABLES
    call,            \* the EvaluatedCall of each invocation: url and the two switches
    pc,              \* where the main flow of each invocation stands
    browser_config,  \* the BrowserConfig built by browse_page
    browser,         \* the Browser handle owned by the invocation: a process id, or NoBrowser
    procs,           \* the browser processes of the host, by process id
    task,            \* the event-draining task spawned on the invocation's runtime
    html,            \* the String bound by `let html = page.content().await?`
    result,          \* what HttpBrowse::run returned
    log,             \* the browser commands issued and answered, in order
    readyState,      \* document.readyState of the invocation's page
    injected,        \* whether the idle-detection script has been evaluated in the page
    activeRequests,  \* the script's `activeRequests`
    idleTimer,       \* the script's `idleTimer`: the pending timeout, or NoTimer
    loadListener,    \* whether the script's once-only 'load' listener is registered
    promise,         \* the promise returned by the script: WAITING, or its value
    inflight,        \* the instrumented requests in flight, by primitive
    started,         \* the number of instrumented requests the page has started
    since,           \* ms since the last request completed (or the script started), saturating
    hist,            \* what the page has done so far (history, read only by properties)
    settleSnap       \* the page as it was when the promise resolved (history)

vars == << call, pc, browser_config, browser, procs, task, html, result, log,
           readyState, injected, activeRequests, idleTimer, loadListener,
           promise, inflight, started, since, hist, settleSnap >>

lifecycleVars == << pc, browser_config, browser, procs, task, html, result, log >>

scriptVars == << injected, activeRequests, idleTimer, loadListener, promise,
                 inflight, started, since, hist, settleSnap >>

-----------------------------------------------------------------------------
(* Bounds of the model *)

\* instrumented requests a page starts after the script is injected
MaxReq == 3
\* milliseconds by which one Tick advances the clocks
TickMs == 250

(* Program constants *)

\* setTimeout(..., 500)
Debounce == 500
\* BrowserConfig::builder().port(0)
AutoPort == 0

-----------------------------------------------------------------------------
(* Values *)

NoBrowser == 0
NoConfig == [port |-> -1, headless |-> TRUE, built |-> FALSE]
NoTimer == [label |-> "none", left |-> 0]
WAITING == "WAITING"
NoHtml == << >>
NoResult == [kind |-> "none"]
NoSnap == [taken |-> FALSE, active |-> 0, since |-> 0, timerLabel |-> "none",
           started |-> 0, lastZero |-> "none", afterLoad |-> "none",
           sinceStart |-> 0, sinceDone |-> 0]
NoHist == [xhr |-> FALSE, overlap |-> FALSE, gapBroken |-> FALSE, quiet |-> FALSE,
           completed |-> 0, fired |-> 0, budget |-> 0,
           idleAtStart |-> FALSE, lastZero |-> "none", afterLoad |-> "none",
           sinceStart |-> Debounce, sinceDone |-> Debounce]

Invs == DOMAIN call
Pids == DOMAIN procs

Min(a, b) == IF a < b THEN a ELSE b
Max(a, b) == IF a > b THEN a ELSE b

\* the target of invocation i: each invocation browses its own URL
UrlOf(i) == << "url", i >>

\* page.content(): the serialized document of the page opened on `url`
Html(url) == << "<html", url >>

\* the Display text of the error with which a phase fails
ErrText(phase) == phase \o " error"

-----------------------------------------------------------------------------
(* HttpBrowse::run and browse_page: pure parts *)

\* the switch passed without its negation
StealthArg_NotNegated(c) == c.no_stealth

\* browse_page's second argument: `!disable_stealth`
StealthArg(c) == ~ c.no_stealth

\* browse_page's third argument: `disable_headless`
HeadlessArg(c) == c.with_head

\* BrowserConfig::builder().port(0), then with_head() if disable_headless
BuildBrowserConfig(disable_headless) ==
    [port |-> AutoPort, headless |-> ~ disable_headless, built |-> TRUE]

\* Ok(html) => Ok(Value::string(html, call.head))
OkValue(h) == [kind |-> "value", string |-> h]

\* Err(e) => Err(LabeledError::new(format!("{e}")).with_label("browse failed", ..))
BrowseFailed(text) == [kind |-> "error", msg |-> text, label |-> "browse failed"]

\* call.req(0)? failing: the engine's error, returned before browse_page is called
ArgError == [kind |-> "error", msg |-> ErrText("argument"), label |-> "none"]

Issued(i, op) == \E k \in 1..Len(log[i]) : log[i][k] = << op, "call" >>
Answered(i, op, how) == \E k \in 1..Len(log[i]) : log[i][k] = << op, how >>
Pos(i, e) == IF \E k \in 1..Len(log[i]) : log[i][k] = e
             THEN CHOOSE k \in 1..Len(log[i]) : log[i][k] = e
             ELSE 0

-----------------------------------------------------------------------------
(* The idle-detection script: pure parts *)

\* `${label}-network-idle`
IdleValue(label) == label \o "-network-idle"

\* a clearTimeout that leaves the timeout pending
ClearTimeout_Noop(t) == t

\* clearTimeout(idleTimer)
ClearTimeout(t) == NoTimer

\* a debounce of one tick instead of 500 ms
Done_Short(t, label) == [label |-> label, left |-> 1]

\* done(label): clearTimeout(idleTimer); idleTimer = setTimeout(resolve(..), 500)
Done(t, label) == [label |-> label, left |-> Debounce]

\* a resettable completion token: every call overwrites the value
Resolve_Resettable(p, value) == value

\* resolve(value) of a promise: only the first call settles it
Resolve(p, value) == IF p = WAITING THEN value ELSE p

\* done called after every decrement, whatever the counter
AfterDecrement_Always(t, n, label) == Done(t, label)

\* `if (activeRequests <= 0) done(label)` after a decrement
AfterDecrement(t, n, label) == IF n <= 0 THEN Done(t, label) ELSE t

\* maybeResolveImmediately's test
IsIdleAtStart(rs, n) == rs = "complete" /\ n = 0

-----------------------------------------------------------------------------
(* Initial states *)

Flags == [url_given : BOOLEAN, no_stealth : BOOLEAN, with_head : BOOLEAN]

InitOf(I, budget) ==
    /\ call \in [I -> Flags]
    /\ pc = [i \in I |-> "run"]
    /\ browser_config = [i \in I |-> NoConfig]
    /\ browser = [i \in I |-> NoBrowser]
    /\ procs = [p \in I |-> "absent"]
    /\ task = [i \in I |-> "none"]
    /\ html = [i \in I |-> NoHtml]
    /\ result = [i \in I |-> NoResult]
    /\ log = [i \in I |-> << >>]
    /\ readyState = [i \in I |-> "none"]
    /\ injected = [i \in I |-> FALSE]
    /\ activeRequests = [i \in I |-> 0]
    /\ idleTimer = [i \in I |-> NoTimer]
    /\ loadListener = [i \in I |-> FALSE]
    /\ promise = [i \in I |-> WAITING]
    /\ inflight = [i \in I |-> [xhr |-> 0, fetch |-> 0]]
    /\ started = [i \in I |-> 0]
    /\ since = [i \in I |-> 0]
    /\ hist = [i \in I |-> [NoHist EXCEPT !.budget = budget]]
    /\ settleSnap = [i \in I |-> NoSnap]

\* one invocation, on a page that issues up to MaxReq instrumented requests
Init == InitOf({1}, MaxReq)

\* two concurrent invocations, on pages that issue no instrumented request
InitConcurrent == InitOf({1, 2}, 0)

-----------------------------------------------------------------------------
(* HttpBrowse::run and browse_page: the main flow *)

Live(i) == browser[i] # NoBrowser /\ procs[browser[i]] = "running"

Append2(i, e) == [log EXCEPT ![i] = Append(@, e)]

\* A `?` that returns early from browse_page, and run's Err arm: the async
\* block's locals and the runtime are dropped (Browser::close is not called),
\* and the error is wrapped.
Fail(i, phase) ==
    /\ pc' = [pc EXCEPT ![i] = "returned"]
    /\ result' = [result EXCEPT ![i] = BrowseFailed(ErrText(phase))]
    /\ log' = Append2(i, << phase, "err" >>)
    /\ task' = [task EXCEPT ![i] = IF @ = "running" THEN "stopped" ELSE @]
    /\ procs' = IF browser[i] = NoBrowser THEN procs
                ELSE [procs EXCEPT ![browser[i]] = "dropped"]
    /\ UNCHANGED << call, browser_config, browser, html, readyState >>
    /\ UNCHANGED scriptVars

\* an awaited browser command is issued: the main flow suspends
Issue(i, from, op, to) ==
    /\ pc[i] = from
    /\ pc' = [pc EXCEPT ![i] = to]
    /\ log' = Append2(i, << op, "call" >>)

\* the response of an awaited browser command arrives: the main flow resumes
Answer(i, from, op, to) ==
    /\ pc[i] = from
    /\ pc' = [pc EXCEPT ![i] = to]
    /\ log' = Append2(i, << op, "ok" >>)

\* run: call.req(0)?, the two has_flag, then browse_page is entered
Run(i) ==
    /\ pc[i] = "run"
    /\ \/ /\ call[i].url_given
          /\ pc' = [pc EXCEPT ![i] = "runtime"]
          /\ UNCHANGED result
       \/ /\ ~ call[i].url_given
          /\ pc' = [pc EXCEPT ![i] = "returned"]
          /\ result' = [result EXCEPT ![i] = ArgError]
    /\ UNCHANGED << call, browser_config, browser, procs, task, html, log, readyState >>
    /\ UNCHANGED scriptVars

\* tokio::runtime::Runtime::new()?
RuntimeNew(i) ==
    /\ pc[i] = "runtime"
    /\ \/ /\ pc' = [pc EXCEPT ![i] = "config"]
          /\ UNCHANGED << call, browser_config, browser, procs, task, html, result,
                          log, readyState >>
          /\ UNCHANGED scriptVars
       \/ Fail(i, "runtime")

\* the builder, with_head() if disable_headless, and browser_config.build()?
BuildConfig(i) ==
    /\ pc[i] = "config"
    /\ \/ /\ pc' = [pc EXCEPT ![i] = "launch"]
          /\ browser_config' =
                 [browser_config EXCEPT ![i] = BuildBrowserConfig(HeadlessArg(call[i]))]
          /\ UNCHANGED << call, browser, procs, task, html, result, log, readyState >>
          /\ UNCHANGED scriptVars
       \/ Fail(i, "config")

\* Browser::launch(config).await
Launch(i) ==
    /\ Issue(i, "launch", "launch", "launching")
    /\ UNCHANGED << call, browser_config, browser, procs, task, html, result, readyState >>
    /\ UNCHANGED scriptVars

\* a browser shared by the invocations: the first process of the host
NewProcess_Shared == CHOOSE p \in Pids : \A q \in Pids : p <= q

\* the process a successful launch starts: a new one, listening on the port
\* the system assigned it
NewProcess == CHOOSE p \in Pids : procs[p] = "absent" /\ \A q \in Pids : procs[q] = "absent" => p <= q

LaunchOk(i) ==
    /\ Answer(i, "launching", "launch", "spawn")
    /\ browser' = [browser EXCEPT ![i] = NewProcess]
    /\ procs' = [procs EXCEPT ![NewProcess] = "running"]
    /\ UNCHANGED << call, browser_config, task, html, result, readyState >>
    /\ UNCHANGED scriptVars

LaunchErr(i) ==
    /\ pc[i] = "launching"
    /\ Fail(i, "launch")

\* the main flow going on to new_page without spawning the draining task
SpawnTask_Missing(i) ==
    /\ pc[i] = "spawn"
    /\ pc' = [pc EXCEPT ![i] = "new_page"]
    /\ UNCHANGED << call, browser_config, browser, procs, task, html, result, log,
                    readyState >>
    /\ UNCHANGED scriptVars

\* let _task = tokio::spawn(async move { while let Some(_) = handler.next().await {} })
SpawnTask(i) ==
    /\ pc[i] = "spawn"
    /\ pc' = [pc EXCEPT ![i] = "new_page"]
    /\ task' = [task EXCEPT ![i] = "running"]
    /\ UNCHANGED << call, browser_config, browser, procs, html, result, log, readyState >>
    /\ UNCHANGED scriptVars

\* browser.new_page(url).await
NewPage(i) ==
    /\ Issue(i, "new_page", "new_page", "navigating")
    /\ UNCHANGED << call, browser_config, browser, procs, task, html, result, readyState >>
    /\ UNCHANGED scriptVars

\* the page exists; its document may or may not have finished loading
NewPageOk(i) ==
    /\ Answer(i, "navigating", "new_page", "stealth")
    /\ Live(i)
    /\ \E rs \in {"loading", "complete"} : readyState' = [readyState EXCEPT ![i] = rs]
    /\ UNCHANGED << call, browser_config, browser, procs, task, html, result >>
    /\ UNCHANGED scriptVars

\* a failed navigation tried a second time
NewPageErr_Retry(i) ==
    /\ pc[i] = "navigating"
    /\ IF Cardinality({k \in 1..Len(log[i]) : log[i][k] = << "new_page", "call" >>}) = 1
       THEN /\ pc' = [pc EXCEPT ![i] = "new_page"]
            /\ log' = Append2(i, << "navigation", "err" >>)
            /\ UNCHANGED << call, browser_config, browser, procs, task, html, result,
                            readyState >>
            /\ UNCHANGED scriptVars
       ELSE Fail(i, "navigation")

NewPageErr(i) ==
    /\ pc[i] = "navigating"
    /\ Fail(i, "navigation")

\* if stealth { page.enable_stealth_mode().await }
EnableStealth(i) ==
    /\ \/ /\ StealthArg(call[i])
          /\ Issue(i, "stealth", "enable_stealth_mode", "stealthing")
       \/ /\ ~ StealthArg(call[i])
          /\ pc[i] = "stealth"
          /\ pc' = [pc EXCEPT ![i] = "evaluate"]
          /\ UNCHANGED log
    /\ UNCHANGED << call, browser_config, browser, procs, task, html, result, readyState >>
    /\ UNCHANGED scriptVars

EnableStealthOk(i) ==
    /\ Answer(i, "stealthing", "enable_stealth_mode", "evaluate")
    /\ Live(i)
    /\ UNCHANGED << call, browser_config, browser, procs, task, html, result, readyState >>
    /\ UNCHANGED scriptVars

\* a stealth failure that is ignored: `let _ = page.enable_stealth_mode().await`
EnableStealthErr_Ignored(i) ==
    /\ pc[i] = "stealthing"
    /\ pc' = [pc EXCEPT ![i] = "evaluate"]
    /\ log' = Append2(i, << "stealth", "err" >>)
    /\ UNCHANGED << call, browser_config, browser, procs, task, html, result, readyState >>
    /\ UNCHANGED scriptVars

EnableStealthErr(i) ==
    /\ pc[i] = "stealthing"
    /\ Fail(i, "stealth")

\* page.evaluate(script).await is issued: the script runs in the page up to
\* the end of maybeResolveImmediately()
Evaluate(i) ==
    /\ Issue(i, "evaluate", "evaluate", "evaluating")
    /\ Live(i)
    /\ injected' = [injected EXCEPT ![i] = TRUE]
    /\ activeRequests' = [activeRequests EXCEPT ![i] = 0]
    /\ since' = [since EXCEPT ![i] = 0]
    /\ IF IsIdleAtStart(readyState[i], 0)
       THEN /\ idleTimer' = [idleTimer EXCEPT ![i] = Done(NoTimer, "initial")]
            /\ UNCHANGED loadListener
       ELSE /\ loadListener' = [loadListener EXCEPT ![i] = TRUE]
            /\ idleTimer' = [idleTimer EXCEPT ![i] = NoTimer]
    /\ hist' = [hist EXCEPT ![i].idleAtStart = readyState[i] = "complete",
                            ![i].sinceDone = IF readyState[i] = "complete" THEN 0 ELSE @]
    /\ UNCHANGED << call, browser_config, browser, procs, task, html, result, readyState,
                    promise, inflight, started, settleSnap >>

\* evaluate answered without awaiting the promise
EvaluateOk_NoAwait(i) ==
    /\ Answer(i, "evaluating", "evaluate", "content")
    /\ Live(i)
    /\ UNCHANGED << call, browser_config, browser, procs, task, html, result, readyState >>
    /\ UNCHANGED scriptVars

\* the promise has resolved: evaluate returns its value
EvaluateOk(i) ==
    /\ Answer(i, "evaluating", "evaluate", "content")
    /\ Live(i)
    /\ promise[i] # WAITING
    /\ UNCHANGED << call, browser_config, browser, procs, task, html, result, readyState >>
    /\ UNCHANGED scriptVars

EvaluateErr(i) ==
    /\ pc[i] = "evaluating"
    /\ Fail(i, "evaluation")

\* page.content().await
Content(i) ==
    /\ Issue(i, "content", "content", "reading")
    /\ UNCHANGED << call, browser_config, browser, procs, task, html, result, readyState >>
    /\ UNCHANGED scriptVars

ContentOk(i) ==
    /\ Answer(i, "reading", "content", "close")
    /\ Live(i)
    /\ html' = [html EXCEPT ![i] = Html(UrlOf(i))]
    /\ UNCHANGED << call, browser_config, browser, procs, task, result, readyState >>
    /\ UNCHANGED scriptVars

ContentErr(i) ==
    /\ pc[i] = "reading"
    /\ Fail(i, "content")

\* browser.close().await
Close(i) ==
    /\ Issue(i, "close", "close", "closing")
    /\ UNCHANGED << call, browser_config, browser, procs, task, html, result, readyState >>
    /\ UNCHANGED scriptVars

\* close succeeded: Ok(html) leaves browse_page and run wraps it
CloseOk(i) ==
    /\ Answer(i, "closing", "close", "returned")
    /\ Live(i)
    /\ procs' = [procs EXCEPT ![browser[i]] = "closed"]
    /\ task' = [task EXCEPT ![i] = "stopped"]
    /\ result' = [result EXCEPT ![i] = OkValue(html[i])]
    /\ UNCHANGED << call, browser_config, browser, html, readyState >>
    /\ UNCHANGED scriptVars

\* close failed and its outcome is discarded: `let _ = browser.close().await`
CloseErr_Discarded(i) ==
    /\ pc[i] = "closing"
    /\ pc' = [pc EXCEPT ![i] = "returned"]
    /\ log' = Append2(i, << "close", "err" >>)
    /\ procs' = [procs EXCEPT ![browser[i]] = "dropped"]
    /\ task' = [task EXCEPT ![i] = "stopped"]
    /\ result' = [result EXCEPT ![i] = OkValue(html[i])]
    /\ UNCHANGED << call, browser_config, browser, html, readyState >>
    /\ UNCHANGED scriptVars

\* close failed: `browser.close().await?` returns the error
CloseErr(i) ==
    /\ pc[i] = "closing"
    /\ Fail(i, "close")

-----------------------------------------------------------------------------
(* The page and the idle-detection script *)

\* the script is running in a page of a running browser
Scripted(i) == Live(i) /\ injected[i]

InFlight(i) == inflight[i].xhr + inflight[i].fetch

Armed(i) == idleTimer[i] # NoTimer

\* what the load event adds to the history of the page
LoadHist(i) ==
    IF loadListener[i]
    THEN [hist EXCEPT ![i].afterLoad = "clean", ![i].sinceDone = 0]
    ELSE hist

\* what a request start adds to the history of the page
StartHist(i, isXhr) ==
    [hist EXCEPT ![i].xhr = @ \/ isXhr,
                 ![i].overlap = @ \/ InFlight(i) > 0,
                 ![i].gapBroken = @ \/ (InFlight(i) = 0 /\ since[i] >= Debounce),
                 ![i].lastZero = "none",
                 ![i].afterLoad = IF @ = "clean" THEN "disturbed" ELSE @,
                 ![i].sinceStart = 0]

\* what the end of a request adds to the history of the page
EndHist(i, label) ==
    IF activeRequests[i] - 1 <= 0
    THEN [hist EXCEPT ![i].completed = @ + 1,
                      ![i].lastZero = label,
                      ![i].afterLoad = IF @ = "clean" THEN "disturbed" ELSE @,
                      ![i].sinceDone = 0]
    ELSE [hist EXCEPT ![i].completed = @ + 1]

\* the load listener calling done with the label of another trigger
LoadEvent_FetchLabel(i) ==
    /\ Live(i)
    /\ readyState[i] = "loading"
    /\ readyState' = [readyState EXCEPT ![i] = "complete"]
    /\ IF loadListener[i]
       THEN /\ idleTimer' = [idleTimer EXCEPT ![i] = Done(@, "fetch")]
            /\ loadListener' = [loadListener EXCEPT ![i] = FALSE]
       ELSE UNCHANGED << idleTimer, loadListener >>
    /\ hist' = LoadHist(i)
    /\ UNCHANGED << call, injected, activeRequests, promise, inflight, started, since,
                    settleSnap >>
    /\ UNCHANGED lifecycleVars

\* the load listener calling done('load') only when no request is in flight
LoadEvent_IfIdle(i) ==
    /\ Live(i)
    /\ readyState[i] = "loading"
    /\ readyState' = [readyState EXCEPT ![i] = "complete"]
    /\ IF loadListener[i]
       THEN /\ idleTimer' = [idleTimer EXCEPT
                                ![i] = IF activeRequests[i] = 0 THEN Done(@, "load") ELSE @]
            /\ loadListener' = [loadListener EXCEPT ![i] = FALSE]
       ELSE UNCHANGED << idleTimer, loadListener >>
    /\ hist' = LoadHist(i)
    /\ UNCHANGED << call, injected, activeRequests, promise, inflight, started, since,
                    settleSnap >>
    /\ UNCHANGED lifecycleVars

\* the document finishes loading: the 'load' event, and the script's listener
LoadEvent(i) ==
    /\ Live(i)
    /\ readyState[i] = "loading"
    /\ readyState' = [readyState EXCEPT ![i] = "complete"]
    /\ IF loadListener[i]
       THEN /\ idleTimer' = [idleTimer EXCEPT ![i] = Done(@, "load")]
            /\ loadListener' = [loadListener EXCEPT ![i] = FALSE]
       ELSE UNCHANGED << idleTimer, loadListener >>
    /\ hist' = LoadHist(i)
    /\ UNCHANGED << call, injected, activeRequests, promise, inflight, started, since,
                    settleSnap >>
    /\ UNCHANGED lifecycleVars

\* the loadstart listener without its clearTimeout(idleTimer)
XhrLoadStart_NoClear(i) ==
    /\ Scripted(i)
    /\ started[i] < hist[i].budget
    /\ activeRequests' = [activeRequests EXCEPT ![i] = @ + 1]
    /\ inflight' = [inflight EXCEPT ![i].xhr = @ + 1]
    /\ started' = [started EXCEPT ![i] = @ + 1]
    /\ hist' = StartHist(i, TRUE)
    /\ UNCHANGED << call, readyState, injected, idleTimer, loadListener, promise, since,
                    settleSnap >>
    /\ UNCHANGED lifecycleVars

\* an XHR opened through the wrapper is sent: its 'loadstart' listener
XhrLoadStart(i) ==
    /\ Scripted(i)
    /\ started[i] < hist[i].budget
    /\ activeRequests' = [activeRequests EXCEPT ![i] = @ + 1]
    /\ idleTimer' = [idleTimer EXCEPT ![i] = ClearTimeout(@)]
    /\ inflight' = [inflight EXCEPT ![i].xhr = @ + 1]
    /\ started' = [started EXCEPT ![i] = @ + 1]
    /\ hist' = StartHist(i, TRUE)
    /\ UNCHANGED << call, readyState, injected, loadListener, promise, since, settleSnap >>
    /\ UNCHANGED lifecycleVars

\* the loadend listener calling done with the label of the other primitive
XhrLoadEnd_FetchLabel(i) ==
    /\ Scripted(i)
    /\ inflight[i].xhr > 0
    /\ activeRequests' = [activeRequests EXCEPT ![i] = @ - 1]
    /\ idleTimer' = [idleTimer EXCEPT
                       ![i] = AfterDecrement(@, activeRequests[i] - 1, "fetch")]
    /\ inflight' = [inflight EXCEPT ![i].xhr = @ - 1]
    /\ since' = [since EXCEPT ![i] = 0]
    /\ hist' = EndHist(i, "xhr")
    /\ UNCHANGED << call, readyState, injected, loadListener, promise, started, settleSnap >>
    /\ UNCHANGED lifecycleVars

\* the XHR ends (load, error, abort or timeout): its 'loadend' listener
XhrLoadEnd(i) ==
    /\ Scripted(i)
    /\ inflight[i].xhr > 0
    /\ activeRequests' = [activeRequests EXCEPT ![i] = @ - 1]
    /\ idleTimer' = [idleTimer EXCEPT
                       ![i] = AfterDecrement(@, activeRequests[i] - 1, "xhr")]
    /\ inflight' = [inflight EXCEPT ![i].xhr = @ - 1]
    /\ since' = [since EXCEPT ![i] = 0]
    /\ hist' = EndHist(i, "xhr")
    /\ UNCHANGED << call, readyState, injected, loadListener, promise, started, settleSnap >>
    /\ UNCHANGED lifecycleVars

\* the fetch wrapper without its clearTimeout(idleTimer)
FetchCall_NoClear(i) ==
    /\ Scripted(i)
    /\ started[i] < hist[i].budget
    /\ activeRequests' = [activeRequests EXCEPT ![i] = @ + 1]
    /\ inflight' = [inflight EXCEPT ![i].fetch = @ + 1]
    /\ started' = [started EXCEPT ![i] = @ + 1]
    /\ hist' = StartHist(i, FALSE)
    /\ UNCHANGED << call, readyState, injected, idleTimer, loadListener, promise, since,
                    settleSnap >>
    /\ UNCHANGED lifecycleVars

\* the page calls the wrapped window.fetch: up to `await origFetch.apply(..)`
FetchCall(i) ==
    /\ Scripted(i)
    /\ started[i] < hist[i].budget
    /\ activeRequests' = [activeRequests EXCEPT ![i] = @ + 1]
    /\ idleTimer' = [idleTimer EXCEPT ![i] = ClearTimeout(@)]
    /\ inflight' = [inflight EXCEPT ![i].fetch = @ + 1]
    /\ started' = [started EXCEPT ![i] = @ + 1]
    /\ hist' = StartHist(i, FALSE)
    /\ UNCHANGED << call, readyState, injected, loadListener, promise, since, settleSnap >>
    /\ UNCHANGED lifecycleVars

\* the wrapper's `finally` decrementing without the call of done
FetchSettle_NoDone(i) ==
    /\ Scripted(i)
    /\ inflight[i].fetch > 0
    /\ activeRequests' = [activeRequests EXCEPT ![i] = @ - 1]
    /\ inflight' = [inflight EXCEPT ![i].fetch = @ - 1]
    /\ since' = [since EXCEPT ![i] = 0]
    /\ hist' = EndHist(i, "fetch")
    /\ UNCHANGED << call, readyState, injected, idleTimer, loadListener, promise, started,
                    settleSnap >>
    /\ UNCHANGED lifecycleVars

\* origFetch settles (fulfilled or rejected): the wrapper's `finally`
FetchSettle(i) ==
    /\ Scripted(i)
    /\ inflight[i].fetch > 0
    /\ activeRequests' = [activeRequests EXCEPT ![i] = @ - 1]
    /\ idleTimer' = [idleTimer EXCEPT
                       ![i] = AfterDecrement(@, activeRequests[i] - 1, "fetch")]
    /\ inflight' = [inflight EXCEPT ![i].fetch = @ - 1]
    /\ since' = [since EXCEPT ![i] = 0]
    /\ hist' = EndHist(i, "fetch")
    /\ UNCHANGED << call, readyState, injected, loadListener, promise, started, settleSnap >>
    /\ UNCHANGED lifecycleVars

\* the pending timeout expires: resolve(`${label}-network-idle`)
TimerFire(i) ==
    /\ Scripted(i)
    /\ Armed(i)
    /\ idleTimer[i].left = 0
    /\ promise' = [promise EXCEPT ![i] = Resolve(@, IdleValue(idleTimer[i].label))]
    /\ idleTimer' = [idleTimer EXCEPT ![i] = NoTimer]
    /\ settleSnap' = IF promise[i] = WAITING
                     THEN [settleSnap EXCEPT ![i] =
                              [taken |-> TRUE, active |-> InFlight(i), since |-> since[i],
                               timerLabel |-> idleTimer[i].label,
                               started |-> started[i],
                               lastZero |-> hist[i].lastZero,
                               afterLoad |-> hist[i].afterLoad,
                               sinceStart |-> hist[i].sinceStart,
                               sinceDone |-> hist[i].sinceDone]]
                     ELSE settleSnap
    /\ hist' = [hist EXCEPT ![i].fired = @ + 1]
    /\ UNCHANGED << call, readyState, injected, activeRequests, loadListener, inflight,
                    started, since >>
    /\ UNCHANGED lifecycleVars

\* TickMs milliseconds pass in every page; a timeout that is due fires first
Tick ==
    /\ \E i \in Invs : Scripted(i)
    /\ \A i \in Invs : Scripted(i) /\ Armed(i) => idleTimer[i].left > 0
    /\ idleTimer' = [i \in Invs |->
                        IF Scripted(i) /\ Armed(i)
                        THEN [idleTimer[i] EXCEPT !.left = Max(0, @ - TickMs)]
                        ELSE idleTimer[i]]
    /\ since' = [i \in Invs |->
                    IF Scripted(i) THEN Min(Debounce, since[i] + TickMs) ELSE since[i]]
    /\ hist' = [i \in Invs |->
                   IF Scripted(i)
                   THEN [hist[i] EXCEPT
                            !.quiet = @ \/ (InFlight(i) = 0 /\ since[i] + TickMs >= Debounce),
                            !.sinceStart = Min(Debounce, @ + TickMs),
                            !.sinceDone = Min(Debounce, @ + TickMs)]
                   ELSE hist[i]]
    /\ UNCHANGED << call, readyState, injected, activeRequests, loadListener, promise,
                    inflight, started, settleSnap >>
    /\ UNCHANGED lifecycleVars

-----------------------------------------------------------------------------
(* Specifications *)

Next ==
    \/ \E i \in Invs : Run(i)
    \/ \E i \in Invs : RuntimeNew(i)
    \/ \E i \in Invs : BuildConfig(i)
    \/ \E i \in Invs : Launch(i)
    \/ \E i \in Invs : LaunchOk(i)
    \/ \E i \in Invs : LaunchErr(i)
    \/ \E i \in Invs : SpawnTask(i)
    \/ \E i \in Invs : NewPage(i)
    \/ \E i \in Invs : NewPageOk(i)
    \/ \E i \in Invs : NewPageErr(i)
    \/ \E i \in Invs : EnableStealth(i)
    \/ \E i \in Invs : EnableStealthOk(i)
    \/ \E i \in Invs : EnableStealthErr(i)
    \/ \E i \in Invs : Evaluate(i)
    \/ \E i \in Invs : EvaluateOk(i)
    \/ \E i \in Invs : EvaluateErr(i)
    \/ \E i \in Invs : Content(i)
    \/ \E i \in Invs : ContentOk(i)
    \/ \E i \in Invs : ContentErr(i)
    \/ \E i \in Invs : Close(i)
    \/ \E i \in Invs : CloseOk(i)
    \/ \E i \in Invs : CloseErr(i)
    \/ \E i \in Invs : LoadEvent(i)
    \/ \E i \in Invs : XhrLoadStart(i)
    \/ \E i \in Invs : XhrLoadEnd(i)
    \/ \E i \in Invs : FetchCall(i)
    \/ \E i \in Invs : FetchSettle(i)
    \/ \E i \in Invs : TimerFire(i)
    \/ Tick

\* the same, for pages that issue no instrumented request
NextConcurrent ==
    \/ \E i \in Invs : Run(i)
    \/ \E i \in Invs : RuntimeNew(i)
    \/ \E i \in Invs : BuildConfig(i)
    \/ \E i \in Invs : Launch(i)
    \/ \E i \in Invs : LaunchOk(i)
    \/ \E i \in Invs : LaunchErr(i)
    \/ \E i \in Invs : SpawnTask(i)
    \/ \E i \in Invs : NewPage(i)
    \/ \E i \in Invs : NewPageOk(i)
    \/ \E i \in Invs : NewPageErr(i)
    \/ \E i \in Invs : EnableStealth(i)
    \/ \E i \in Invs : EnableStealthOk(i)
    \/ \E i \in Invs : EnableStealthErr(i)
    \/ \E i \in Invs : Evaluate(i)
    \/ \E i \in Invs : EvaluateOk(i)
    \/ \E i \in Invs : EvaluateErr(i)
    \/ \E i \in Invs : Content(i)
    \/ \E i \in Invs : ContentOk(i)
    \/ \E i \in Invs : ContentErr(i)
    \/ \E i \in Invs : Close(i)
    \/ \E i \in Invs : CloseOk(i)
    \/ \E i \in Invs : CloseErr(i)
    \/ \E i \in Invs : LoadEvent(i)
    \/ \E i \in Invs : TimerFire(i)
    \/ Tick

\* one invocation of the command
Spec == Init /\ [][Next]_vars

\* two concurrent invocations of the command
SpecConcurrent == InitConcurrent /\ [][NextConcurrent]_vars

\* a step of the main flow: the next statement of run / browse_page, or the
\* response of the command it is suspended on; evaluate's failure is left out,
\* its response being the value of the promise
MainStep(i) ==
    \/ Run(i) \/ RuntimeNew(i) \/ BuildConfig(i)
    \/ Launch(i) \/ LaunchOk(i) \/ LaunchErr(i)
    \/ SpawnTask(i)
    \/ NewPage(i) \/ NewPageOk(i) \/ NewPageErr(i)
    \/ EnableStealth(i) \/ EnableStealthOk(i) \/ EnableStealthErr(i)
    \/ Evaluate(i) \/ EvaluateOk(i)
    \/ Content(i) \/ ContentOk(i) \/ ContentErr(i)
    \/ Close(i) \/ CloseOk(i) \/ CloseErr(i)

\* the main flow runs and every command responds; the document reaches its
\* load event; every started request completes; timeouts fire and time passes
Fairness ==
    /\ WF_vars(MainStep(1))
    /\ WF_vars(LoadEvent(1))
    /\ WF_vars(XhrLoadEnd(1))
    /\ WF_vars(FetchSettle(1))
    /\ WF_vars(TimerFire(1))
    /\ WF_vars(Tick)

\* one invocation under these conditions; the page starts at most MaxReq requests
SpecLive == Init /\ [][Next]_vars /\ Fairness

-----------------------------------------------------------------------------
(* Properties *)

Returned(i) == pc[i] = "returned"

\* C1: once Browser::launch has succeeded, browser.close is attempted before
\* browse_page returns, on every exit path (success, and failure of new_page,
\* enable_stealth_mode, evaluate or content).
C1_CloseAttemptedOnEveryExit ==
    \A i \in Invs :
        Returned(i) /\ Answered(i, "launch", "ok") => Issued(i, "close")

\* C2: if stealth is requested, enable_stealth_mode has completed before the
\* idle-detection script is evaluated; page.content is never invoked before
\* the promise of the evaluate call has resolved.
C2_StealthThenIdleThenContent ==
    \A i \in Invs :
        /\ Issued(i, "evaluate") /\ ~ call[i].no_stealth =>
              /\ Answered(i, "enable_stealth_mode", "ok")
              /\ Pos(i, << "enable_stealth_mode", "ok" >>) < Pos(i, << "evaluate", "call" >>)
        /\ Issued(i, "content") =>
              /\ promise[i] # WAITING
              /\ Answered(i, "evaluate", "ok")
              /\ Pos(i, << "evaluate", "ok" >>) < Pos(i, << "content", "call" >>)

C2_Witness ==
    \E i \in Invs :
        ~ call[i].no_stealth /\ Issued(i, "content") /\ promise[i] = "load-network-idle"

\* C3 (as stated): if page.content returned the HTML and browser.close then
\* fails, browse_page and the command still return the retrieved HTML.
C3_CloseFailureDoesNotMask ==
    \A i \in Invs :
        Returned(i) /\ Answered(i, "content", "ok") /\ Answered(i, "close", "err") =>
            result[i] = [kind |-> "value", string |-> html[i]]

\* C3 (amended): if page.content returned the HTML and browser.close then
\* fails, the close failure replaces the success: the command returns the
\* error labelled "browse failed" with the text of the close error and no
\* HTML; HTML is returned only after a close that succeeded.
C3_CloseFailureIsReturned ==
    \A i \in Invs :
        /\ Returned(i) /\ Answered(i, "content", "ok") /\ Answered(i, "close", "err") =>
              result[i] = [kind |-> "error", msg |-> "close error", label |-> "browse failed"]
        /\ result[i].kind = "value" => Answered(i, "close", "ok")

C3_Witness ==
    \E i \in Invs :
        /\ Returned(i) /\ Answered(i, "content", "ok") /\ Answered(i, "close", "err")
        /\ html[i] # NoHtml

\* the phases of browse_page that C4 names, with the commands that come after each
Phases == { "launch", "navigation", "stealth", "evaluation", "content" }

LaterCommands(phase) ==
    CASE phase = "launch" -> { "new_page", "enable_stealth_mode", "evaluate", "content" }
      [] phase = "navigation" -> { "enable_stealth_mode", "evaluate", "content" }
      [] phase = "stealth" -> { "evaluate", "content" }
      [] phase = "evaluation" -> { "content" }
      [] OTHER -> { }

\* C4: if launch, navigation, stealth, evaluation or content retrieval fails,
\* none of the later phases is executed, the result is one error labelled
\* "browse failed" whose message is the failing phase's error text, and no
\* HTML is returned.
C4_FailureAbortsAndIsWrapped ==
    \A i \in Invs : \A phase \in Phases :
        Answered(i, phase, "err") =>
            /\ \A op \in LaterCommands(phase) : ~ Issued(i, op)
            /\ log[i][Len(log[i])] = << phase, "err" >>
            /\ Returned(i)
            /\ result[i] = [kind |-> "error", msg |-> phase \o " error",
                            label |-> "browse failed"]

C4_Witness ==
    \E i \in Invs : Answered(i, "stealth", "err") /\ Returned(i)

\* C5: the idle signal goes from WAITING to SETTLED at most once, and once
\* settled its value never changes, whatever triggers and timers follow.
C5_SettledOnce ==
    [][\A i \in Invs : promise[i] # WAITING => promise'[i] = promise[i]]_vars

\* the timer has fired a second time, with another label, after the signal settled
C5_Witness ==
    \E i \in Invs :
        /\ promise[i] = "load-network-idle"
        /\ hist[i].fired >= 2
        /\ hist[i].completed >= 1

\* the page of invocation i has only issued fetch requests, one at a time
SequentialFetches(i) == injected[i] /\ ~ hist[i].xhr /\ ~ hist[i].overlap

\* ... each of them started less than 500 ms after the one before it completed
\* (the first one less than 500 ms after the script started)
SmallGaps(i) == SequentialFetches(i) /\ ~ hist[i].gapBroken

Settled(i) == promise[i] # WAITING

\* the signal resolved with no request in flight, 500 ms or more after the
\* last completion
SettledAfterQuiet(i) ==
    settleSnap[i].taken /\ settleSnap[i].active = 0 /\ settleSnap[i].since >= 500

C7_StaticPageLabels ==
    \A i \in Invs :
        started[i] = 0 /\ Settled(i) =>
            promise[i] \in { "initial-network-idle", "load-network-idle" }

C7_Witness ==
    \E i \in Invs :
        started[i] = 0 /\ promise[i] = "load-network-idle" /\ pc[i] = "content"

\* the page of invocation i has kept polling so far: sequential fetch requests,
\* and never 500 ms without a request in flight since the script started
Polling(i) == SequentialFetches(i) /\ ~ hist[i].quiet

\* C8 (as stated): for a page that never stops issuing fetch requests, each
\* starting less than 500 ms after the previous one completes, the idle signal
\* never resolves, so evaluate never returns and browse_page returns nothing,
\* for every timing of the load event.
C8_PollingNeverResolves ==
    \A i \in Invs :
        Polling(i) =>
            /\ promise[i] = WAITING
            /\ ~ Answered(i, "evaluate", "ok")
            /\ result[i].kind # "value"

\* C8 (amended): for such a page the idle signal never resolves through the
\* initial check or a fetch completion; it resolves only with label load, when
\* the timer armed by the load event expires while a request is in flight; as
\* long as it has not resolved, evaluate does not return and browse_page returns
\* no HTML (there is no timeout at this layer).
C8_PollingResolvesOnlyByLoad ==
    \A i \in Invs :
        Polling(i) =>
            /\ \/ promise[i] = WAITING
               \/ /\ promise[i] = "load-network-idle"
                  /\ settleSnap[i].active > 0
            /\ promise[i] = WAITING =>
                  /\ ~ Answered(i, "evaluate", "ok")
                  /\ result[i].kind # "value"

\* the page is still polling after three requests and the main flow still waits
C8_Witness ==
    \E i \in Invs :
        /\ Polling(i) /\ hist[i].completed >= 3
        /\ promise[i] = WAITING /\ pc[i] = "evaluating"
        /\ readyState[i] = "complete"

\* what invocation i owns and what its main flow has reached
Session(i) ==
    << pc[i], browser_config[i], browser[i],
       IF browser[i] = NoBrowser THEN "absent" ELSE procs[browser[i]],
       task[i], readyState[i], injected[i], promise[i], html[i], result[i], log[i] >>

\* C9: two concurrent invocations never share a browser process (nor the page,
\* handler and runtime that come with it), and a step of one invocation, its
\* close and its failures included, leaves the session of the other and the
\* command it has in flight as they were.
C9_Isolation ==
    /\ [](\A i \in Invs : \A j \in Invs \ {i} :
             browser[i] # NoBrowser => browser[i] # browser[j])
    /\ [][\A i \in Invs : \A j \in Invs \ {i} :
             pc'[j] # pc[j] => Session(i)' = Session(i)]_vars

\* one invocation has closed its browser while the other waits for its evaluate
C9_Witness ==
    \E i \in Invs : \E j \in Invs \ {i} :
        /\ Returned(i) /\ browser[i] # NoBrowser /\ procs[browser[i]] = "closed"
        /\ pc[j] = "evaluating" /\ Live(j)

\* C10: the launch port is always the auto-assigned port 0; the browser is
\* launched with a visible window iff with-head is given; the stealth step is
\* executed iff no-stealth is absent.
C10_ConfigFromFlags ==
    \A i \in Invs :
        /\ Issued(i, "launch") =>
              /\ browser_config[i].built
              /\ browser_config[i].port = 0
              /\ browser_config[i].headless = ~ call[i].with_head
        /\ Issued(i, "enable_stealth_mode") => ~ call[i].no_stealth
        /\ Issued(i, "evaluate") =>
              (Issued(i, "enable_stealth_mode") <=> ~ call[i].no_stealth)

C10_Witness ==
    \E i \in Invs :
        /\ call[i].with_head /\ call[i].no_stealth
        /\ Issued(i, "evaluate") /\ ~ Issued(i, "enable_stealth_mode")
        /\ ~ browser_config[i].headless

\* the pending timer of invocation i is gone after the step: none is pending,
\* or the one pending was armed in this step by a request completion
TimerCancelled(i) ==
    \/ idleTimer'[i] = NoTimer
    \/ /\ idleTimer'[i].left = 500
       /\ idleTimer'[i].label \in { "xhr", "fetch" }

\* C11 (as stated): every increment and every decrement of the in-flight
\* counter cancels a pending quiet timer, a decrement that leaves the counter
\* above zero included.
C11_EveryChangeCancels ==
    [][\A i \in Invs :
          injected[i] /\ Armed(i) /\ activeRequests'[i] # activeRequests[i] =>
              TimerCancelled(i)]_vars

\* C11 (amended): every increment of the counter cancels a pending quiet
\* timer, and a decrement that brings the counter to zero replaces it by the
\* timer of that completion; a decrement that leaves the counter above zero
\* leaves the pending timer (one armed by the load event) as it is.
C11_ChangeCancelsUnlessAboveZero ==
    [][\A i \in Invs :
          injected[i] /\ Armed(i) =>
              /\ activeRequests'[i] > activeRequests[i] => idleTimer'[i] = NoTimer
              /\ activeRequests'[i] < activeRequests[i] /\ activeRequests'[i] <= 0 =>
                    /\ idleTimer'[i].left = 500
                    /\ idleTimer'[i].label \in { "xhr", "fetch" }
              /\ activeRequests'[i] < activeRequests[i] /\ activeRequests'[i] > 0 =>
                    idleTimer'[i] = idleTimer[i]]_vars

\* the timer armed by the load event, with two requests in flight, is still
\* pending after the first of them has completed
C11_Witness ==
    \E i \in Invs :
        /\ Scripted(i) /\ Armed(i)
        /\ idleTimer[i].label = "load" /\ idleTimer[i].left < 500
        /\ InFlight(i) = 1 /\ activeRequests[i] = 1
        /\ hist[i].completed = 1 /\ since[i] = 0

\* C12 (as stated): when the script starts with the document complete and no
\* request in flight, the idle signal resolves immediately with label initial:
\* no debounce delay precedes the resolution and no later request can prevent
\* or relabel it.
C12_InitialResolvesAtOnce ==
    \A i \in Invs : hist[i].idleAtStart => promise[i] = "initial-network-idle"

\* C12 (amended): when the script starts with the document complete and no
\* request in flight, a 500 ms quiet timer labelled initial is armed; the
\* signal resolves with label initial 500 ms after the script started if no
\* instrumented request starts before; a request started within these 500 ms
\* cancels the timer, and the signal then resolves with label xhr or fetch.
C12_InitialResolvesAfterDebounce ==
    \A i \in Invs :
        hist[i].idleAtStart =>
            /\ promise[i] = WAITING /\ started[i] = 0 =>
                  /\ idleTimer[i].label = "initial"
                  /\ idleTimer[i].left = 500 - since[i]
            /\ promise[i] = "initial-network-idle" =>
                  settleSnap[i].started = 0 /\ settleSnap[i].since >= 500
            /\ Settled(i) /\ settleSnap[i].started = 0 =>
                  promise[i] = "initial-network-idle"
            /\ Settled(i) /\ settleSnap[i].started > 0 =>
                  promise[i] \in { "xhr-network-idle", "fetch-network-idle" }

\* a request started within the 500 ms has relabelled the signal
C12_Witness ==
    \E i \in Invs :
        /\ hist[i].idleAtStart
        /\ promise[i] = "fetch-network-idle"
        /\ started[i] = 1

\* C13 (as stated): whenever the counter reaches zero through the completion
\* of an XHR or fetch request while the signal is WAITING, a 500 ms quiet timer
\* is armed, and if no further request starts before it elapses the signal
\* settles at that moment with the label of that trigger, whatever other
\* events (such as the load event) occur in between.
C13_SettlesWithCompletionLabel ==
    \A i \in Invs :
        /\ promise[i] = WAITING /\ hist[i].lastZero # "none" =>
              /\ idleTimer[i].label = hist[i].lastZero
              /\ idleTimer[i].left = 500 - since[i]
        /\ settleSnap[i].taken /\ settleSnap[i].lastZero # "none" =>
              /\ settleSnap[i].timerLabel = settleSnap[i].lastZero
              /\ promise[i] = settleSnap[i].lastZero \o "-network-idle"
              /\ settleSnap[i].since >= 500

\* C13 (amended): ... the signal settles at that moment with the label of that
\* trigger, unless the load event fires in between: the load listener's
\* done('load') then replaces the timer, and the signal settles 500 ms after
\* the load event with label load.
C13_SettlesWithCompletionLabelOrLoad ==
    \A i \in Invs :
        /\ promise[i] = WAITING /\ hist[i].lastZero # "none" =>
              \/ /\ idleTimer[i].label = hist[i].lastZero
                 /\ idleTimer[i].left = 500 - since[i]
              \/ /\ idleTimer[i].label = "load"
                 /\ idleTimer[i].left = 500 - hist[i].sinceDone
                 /\ hist[i].afterLoad = "clean"
        /\ settleSnap[i].taken /\ settleSnap[i].lastZero # "none" =>
              /\ \/ /\ settleSnap[i].timerLabel = settleSnap[i].lastZero
                    /\ promise[i] = settleSnap[i].lastZero \o "-network-idle"
                 \/ /\ settleSnap[i].timerLabel = "load"
                    /\ promise[i] = "load-network-idle"
                    /\ settleSnap[i].afterLoad = "clean"
              /\ settleSnap[i].since >= 500

\* the signal settled with label xhr on the timer of an XHR completion,
\* although the load event had fired before that completion
C13_Witness ==
    \E i \in Invs :
        /\ settleSnap[i].taken /\ settleSnap[i].lastZero = "xhr"
        /\ promise[i] = "xhr-network-idle"
        /\ settleSnap[i].afterLoad = "disturbed"

\* C14 (as stated): when the document is not complete at script start, the
\* load path is independent of the request counter: once the load event fires
\* while the signal is WAITING, the signal resolves with label load regardless
\* of requests in flight, starting or completing around that time.
C14_LoadAlwaysResolvesWithLoad ==
    \A i \in Invs :
        /\ promise[i] = WAITING /\ hist[i].afterLoad # "none" =>
              idleTimer[i].label = "load"
        /\ settleSnap[i].taken /\ settleSnap[i].afterLoad # "none" =>
              promise[i] = "load-network-idle"

\* C14 (amended): once the load event fires while the signal is WAITING, a
\* 500 ms timer labelled load is armed regardless of the requests in flight,
\* and the signal resolves with label load 500 ms later if no request starts
\* and no completion brings the counter to zero in between; otherwise the
\* load timer is lost and the signal resolves with label xhr or fetch.
C14_LoadResolvesUnlessDisturbed ==
    \A i \in Invs :
        /\ hist[i].afterLoad # "none" => ~hist[i].idleAtStart /\ readyState[i] = "complete"
        /\ promise[i] = WAITING /\ hist[i].afterLoad = "clean" =>
              /\ idleTimer[i].label = "load"
              /\ idleTimer[i].left = 500 - hist[i].sinceDone
        /\ promise[i] = WAITING /\ hist[i].afterLoad = "disturbed" =>
              idleTimer[i].label \in {"none", "xhr", "fetch"}
        /\ settleSnap[i].taken /\ settleSnap[i].afterLoad = "clean" =>
              /\ promise[i] = "load-network-idle"
              /\ settleSnap[i].sinceDone >= 500
        /\ settleSnap[i].taken /\ settleSnap[i].afterLoad = "disturbed" =>
              promise[i] \in {"xhr-network-idle", "fetch-network-idle"}

\* the signal resolved with label load while a request was in flight
C14_Witness ==
    \E i \in Invs :
        /\ promise[i] = "load-network-idle"
        /\ settleSnap[i].afterLoad = "clean"
        /\ settleSnap[i].active >= 1

\* the main flow is at, or suspended on, a browser command that follows launch
AtLaterCommand(i) ==
    pc[i] \in {"new_page", "navigating", "stealth", "stealthing", "evaluate",
               "evaluating", "content", "reading", "close", "closing"}

\* C15: the event-draining task is started immediately after a successful
\* launch and before any further browser command is issued; it is active in
\* every state in which the main flow is suspended on one of those commands,
\* and it is never stopped while the session is still in use.
C15_DrainTaskCoversSession ==
    \A i \in Invs :
        /\ AtLaterCommand(i) => task[i] = "running"
        /\ Answered(i, "launch", "ok") /\ task[i] = "none" =>
              pc[i] = "spawn" /\ log[i][Len(log[i])] = << "launch", "ok" >>
        /\ (\E op \in LaterCommands("launch") \cup {"close"} : Issued(i, op)) => task[i] # "none"
        /\ task[i] # "none" => Answered(i, "launch", "ok")
        /\ task[i] = "stopped" => Returned(i)

\* the main flow is suspended on close, the last command, and the task runs
C15_Witness ==
    \E i \in Invs : pc[i] = "closing" /\ task[i] = "running"

Ops == << "launch", "new_page", "enable_stealth_mode", "evaluate", "content", "close" >>

Rank(op) == CHOOSE r \in 1..Len(Ops) : Ops[r] = op

Calls(i) == {k \in 1..Len(log[i]) : log[i][k][2] = "call"}

\* C16: within one invocation each of launch, new_page, enable_stealth_mode,
\* evaluate, content and close is issued at most once, they are issued only
\* in that order, and each one only after the previous issued operation
\* succeeded.
C16_OnceInOrderAfterSuccess ==
    \A i \in Invs :
        /\ \A k, l \in Calls(i) : k < l => Rank(log[i][k][1]) < Rank(log[i][l][1])
        /\ \A k \in Calls(i) :
              IF log[i][k][1] = "launch"
              THEN k = 1
              ELSE /\ k >= 3
                   /\ log[i][k - 1][2] = "ok"
                   /\ log[i][k - 2] = << log[i][k - 1][1], "call" >>
        /\ \A k \in 1..Len(log[i]) :
              log[i][k][2] = "err" => k = Len(log[i]) /\ Returned(i)

\* all six operations have been issued, each answered before the next
C16_Witness ==
    \E i \in Invs :
        /\ \A r \in 1..Len(Ops) : Issued(i, Ops[r])
        /\ Returned(i)

\* C18: the idle signal never settles less than 500 ms after the most recent
\* counted request start (XHR loadstart or instrumented fetch call) nor less
\* than 500 ms after the most recent call of done (initial check, load event,
\* or counter reaching zero); the one pending quiet timer is always the one
\* armed by the latest call of done, and none survives a request start.
C18_DebounceGuarantee ==
    \A i \in Invs :
        /\ settleSnap[i].taken =>
              /\ settleSnap[i].sinceStart >= 500
              /\ settleSnap[i].sinceDone >= 500
        /\ Scripted(i) /\ Armed(i) =>
              /\ idleTimer[i].left = 500 - hist[i].sinceDone
              /\ hist[i].sinceDone <= hist[i].sinceStart
        /\ promise[i] # WAITING => settleSnap[i].taken

\* the signal settled after three requests, the last one a fetch whose
\* completion armed the timer that settled it
C18_Witness ==
    \E i \in Invs :
        /\ settleSnap[i].taken
        /\ settleSnap[i].started = 3
        /\ settleSnap[i].timerLabel = "fetch"
        /\ hist[i].overlap

\* C17: if every started XHR or fetch request eventually completes, only
\* finitely many requests are started, the document eventually reaches the
\* load event and every browser command eventually responds, then the idle
\* signal of a started script eventually settles and browse_page eventually
\* returns, whatever the interleaving of starts, completions, load and timer
\* firings: browse_page returns in every behaviour, and when it returns after
\* having issued evaluate the signal has settled (or evaluate has answered
\* with a failure, which ends the page).
C17_SettlesAndReturns ==
    /\ <>Returned(1)
    /\ [](Returned(1) /\ Issued(1, "evaluate") =>
              promise[1] # WAITING \/ Answered(1, "evaluation", "err"))

\* browse_page returned the page after a run in which the load timer was lost
\* to a request and all three requests had to complete before the signal settled
C17_Witness ==
    /\ Returned(1)
    /\ result[1] = OkValue(html[1])
    /\ settleSnap[1].started = 3
    /\ settleSnap[1].afterLoad = "disturbed"
    /\ hist[1].overlap

=============================================================================
